---- MODULE Spec2Model ----
(***************************************************************************)
(* VideoToAscii (src/src/main.rs): a video is decoded into frames, the     *)
(* frames are thinned (skip_frames), resized to a size_x by size_y grid,   *)
(* every pixel is quantized to a glyph of a fixed palette                  *)
(* (color_to_character), and the resulting texts are played back in the    *)
(* terminal (print_frames).                                                *)
(*                                                                         *)
(* Four specifications share the variables:                                *)
(*   Spec      the whole of main, on small inputs;                         *)
(*   ArgSpec   main's argument handling and autosize, on wide inputs;      *)
(*   QuantSpec the selection loop of color_to_character over palettes;     *)
(*   SkipSpec  skip_frames over frame lists and strides.                   *)
(*                                                                         *)
(* A String is a sequence of characters; a glyph is written by the name of *)
(* its code point ("U2588" is the full block).                             *)
(***************************************************************************)
EXTENDS Integers, Sequences, FiniteSets

VARIABLES
    pc,           \* the position of main (or of the function under study)
    args,         \* Args::parse(): [fps, autosize, size_x, size_y]
    term,         \* what terminal_size() answers: <<>> (None) or <<width, height>>
    video,        \* what get_video_frames answers: Err, or Ok(the decoded frames)
    frame_delay,  \* main's frame_delay
    size_x,       \* main's size_x
    size_y,       \* main's size_y
    frames,       \* main's frames (resized)
    frames_text,  \* main's frames_text
    printed,      \* what main printed with println!/print!
    out,          \* the terminal operations print_frames attempted, in order
    idx,          \* print_frames: index of the frame the loop is at (0-based)
    exit_code,    \* the process's exit status, -1 while it runs
    shades,       \* QuantSpec: the palette the selection loop runs over
    color,        \* QuantSpec: the pixel color
    character,    \* QuantSpec: the loop's result
    sk_frames,    \* SkipSpec: skip_frames' frames
    sk_every,     \* SkipSpec: skip_frames' skip_every
    sk_result     \* SkipSpec: skip_frames' result

vars == <<pc, args, term, video, frame_delay, size_x, size_y, frames,
          frames_text, printed, out, idx, exit_code, shades, color,
          character, sk_frames, sk_every, sk_result>>

mainVars == <<args, term, video, frame_delay, size_x, size_y, frames,
              frames_text, printed, out, idx, exit_code>>
quantVars == <<shades, color, character>>
skipVars == <<sk_frames, sk_every, sk_result>>

(***************************************************************************)
(* Bounds of the model.                                                    *)
(***************************************************************************)
MaxFps == 60          \* ArgSpec: fps in 1..MaxFps
MaxTermWidth == 24    \* ArgSpec: detected widths 0..MaxTermWidth
MaxTermHeight == 7    \* ArgSpec: detected heights 0..MaxTermHeight
MaxSize == 2          \* Spec: --size-x, --size-y in 0..MaxSize
MaxFrames == 3        \* Spec: a video of at most MaxFrames frames
MaxKind == 1          \* frame contents 0..MaxKind
MaxPalette == 2       \* QuantSpec: palettes of 1..MaxPalette shades
MaxSkipLen == 6       \* SkipSpec: frame lists of at most MaxSkipLen frames
MaxStride == 3        \* SkipSpec: skip_every in 0..MaxStride

(***************************************************************************)
(* Program constants.                                                      *)
(***************************************************************************)
SKIP_EVERY == 0
InitialClosestDistance == 195075

RECURSIVE SeqsUpTo(_, _)
\* All sequences over S of length at most n.
SeqsUpTo(S, n) ==
    IF n = 0 THEN {<<>>}
    ELSE LET shorter == SeqsUpTo(S, n - 1)
         IN  shorter \cup {Append(s, e) : s \in {t \in shorter : Len(t) = n - 1}, e \in S}

(***************************************************************************)
(* Color and Shade (structs), and the palette of color_to_character.       *)
(***************************************************************************)
Color(r, g, b) == [r |-> r, g |-> g, b |-> b]
Shade(symbol, c) == [symbol |-> symbol, color |-> c]

Shades ==
    << Shade("U2588", Color(0, 0, 0)),
       Shade("U2593", Color(51, 51, 51)),
       Shade("U2592", Color(153, 153, 153)),
       Shade("U2591", Color(204, 204, 204)),
       Shade(" ", Color(255, 255, 255)) >>

\* u8::saturating_sub
saturating_sub(a, b) == IF a > b THEN a - b ELSE 0

\* The distance of the selection loop (at most 3 * 255^2, within u32).
Distance(c, shade) ==
    saturating_sub(c.r, shade.color.r) * saturating_sub(c.r, shade.color.r)
    + saturating_sub(c.g, shade.color.g) * saturating_sub(c.g, shade.color.g)
    + saturating_sub(c.b, shade.color.b) * saturating_sub(c.b, shade.color.b)

\* The loop's test for replacing the current best.
Closer(distance, closest_distance) == distance < closest_distance

RECURSIVE SelectLoop(_, _, _, _, _)
\* while i < shades.len() { ... }, i counted from 1 here.
SelectLoop(palette, c, i, closest_distance, ch) ==
    IF i > Len(palette) THEN ch
    ELSE LET distance == Distance(c, palette[i])
         IN  IF Closer(distance, closest_distance)
             THEN SelectLoop(palette, c, i + 1, distance, palette[i].symbol)
             ELSE SelectLoop(palette, c, i + 1, closest_distance, ch)

\* The selection of color_to_character over a given palette.
Select(palette, c) == SelectLoop(palette, c, 1, InitialClosestDistance, "")

color_to_character(c) == Select(Shades, c)

(***************************************************************************)
(* Frames.  A decoded frame is known by its content kind; a resized frame  *)
(* (Mat) has rows, cols and the content of its kind.  A pixel is a Vec3b,  *)
(* <<b, g, r>>.                                                            *)
(***************************************************************************)
PixelValues ==
    << <<0, 0, 0>>, <<255, 255, 255>>, <<30, 60, 200>>, <<153, 153, 153>>,
       <<204, 210, 220>>, <<51, 40, 90>> >>

Mat(rows, cols, kind) == [rows |-> rows, cols |-> cols, kind |-> kind]

\* Result: Ok(v), or Err; Panicked stands for a panic inside an operator.
Ok(v) == [ok |-> TRUE, val |-> v]
Err == [ok |-> FALSE, val |-> <<>>]
Panicked == Err

\* frame.at_2d::<Vec3b>(y, x): Err outside the matrix.
at_2d(frame, y, x) ==
    IF y >= 0 /\ y < frame.rows /\ x >= 0 /\ x < frame.cols
    THEN Ok(PixelValues[((frame.kind + 2 * y + x) % Len(PixelValues)) + 1])
    ELSE Err

\* String::push_str
push_str(text, s) == IF s = "" THEN text ELSE Append(text, s)

RECURSIVE RowLoop(_, _, _, _, _)
\* while x < size_x { ... }; panics when at_2d(..).unwrap() fails.
RowLoop(frame, y, x, sx, text) ==
    IF ~(x < sx) THEN Ok(text)
    ELSE LET pixel == at_2d(frame, y, x)
         IN  IF ~pixel.ok THEN Panicked
             ELSE LET c == Color(pixel.val[3], pixel.val[2], pixel.val[1])
                      closest_char == color_to_character(c)
                  IN  RowLoop(frame, y, x + 1, sx, push_str(text, closest_char))

RECURSIVE FrameLoop(_, _, _, _, _)
\* while y < size_y { ... }
FrameLoop(frame, y, sx, sy, text) ==
    IF ~(y < sy) THEN Ok(text)
    ELSE LET row == RowLoop(frame, y, 0, sx, text)
         IN  IF ~row.ok THEN Panicked
             ELSE FrameLoop(frame, y + 1, sx, sy, push_str(row.val, "\n"))

\* Mutant: the row loop starts at row 1.
frame_to_text_from_row_1(frame, sx, sy) == FrameLoop(frame, 1, sx, sy, <<>>)

frame_to_text(frame, sx, sy) == FrameLoop(frame, 0, sx, sy, <<>>)

\* Mutant: keeps the multiples of skip_every instead of dropping them.
KeepsMultiples(i, skip_every) == i % skip_every = 0

\* The test of skip_frames for keeping the frame at index i (0-based).
Keeps(i, skip_every) == i % skip_every /= 0

RECURSIVE SkipLoop(_, _, _, _)
\* while i < frames.len() { ... }, i 0-based.
SkipLoop(fs, skip_every, i, new_frames) ==
    IF ~(i < Len(fs)) THEN new_frames
    ELSE SkipLoop(fs, skip_every, i + 1,
                  IF Keeps(i, skip_every) THEN Append(new_frames, fs[i + 1])
                  ELSE new_frames)

skip_frames(fs, skip_every) ==
    IF skip_every = 0 THEN fs ELSE SkipLoop(fs, skip_every, 0, <<>>)

\* resize_frames: panics when resize fails on a frame (an empty target size).
resize_frames(fs, sx, sy) ==
    IF fs /= <<>> /\ (sx <= 0 \/ sy <= 0) THEN Panicked
    ELSE Ok([i \in 1..Len(fs) |-> Mat(sy, sx, fs[i])])

(***************************************************************************)
(* main's arithmetic.                                                      *)
(***************************************************************************)
\* Mutant: rounds to the nearest millisecond instead of truncating.
FrameDelayRounded(fps) == (2000 + fps) \div (2 * fps)

\* (1.0 / args.fps * 1000.0) as u64, for a positive integer fps: the cast
\* truncates.
FrameDelay(fps) == 1000 \div fps

\* Mutant: no check of size_y against the height.
AutoSizeNoFallback(autosize, t, sx0, sy0) ==
    IF autosize /\ t /= <<>>
    THEN <<(t[1] \div 4) * 4, t[1] \div 4>>
    ELSE <<sx0, sy0>>

\* Mutant: width / 4 rounded up.
AutoSizeRoundUp(autosize, t, sx0, sy0) ==
    IF autosize /\ t /= <<>>
    THEN LET sy == (t[1] + 3) \div 4
         IN  IF sy > t[2] THEN <<t[2] * 4, t[2]>> ELSE <<sy * 4, sy>>
    ELSE <<sx0, sy0>>

\* if args.autosize { if let Some((Width(width), Height(height))) = ... }
\* <<size_x, size_y>> after the block, from their values before it.
AutoSize(autosize, t, sx0, sy0) ==
    IF autosize /\ t /= <<>>
    THEN LET width == t[1]
             height == t[2]
             sy == width \div 4
             sx == sy * 4
         IN  IF sy > height THEN <<height * 4, height>> ELSE <<sx, sy>>
    ELSE <<sx0, sy0>>

(***************************************************************************)
(* Inputs.                                                                 *)
(***************************************************************************)
Kinds == 0..MaxKind
DefaultArgs == [fps |-> 30, autosize |-> FALSE, size_x |-> 120, size_y |-> 40]

\* Spec: small grids, so that every frame is converted pixel by pixel.
PlayArgs == [fps : {DefaultArgs.fps, 60}, autosize : BOOLEAN,
             size_x : 0..MaxSize, size_y : 0..MaxSize]
PlayTerms == {<<>>, <<3, 2>>, <<4, 1>>, <<8, 2>>, <<9, 1>>}
Videos == {Err} \cup {Ok(fs) : fs \in SeqsUpTo(Kinds, MaxFrames)}

\* ArgSpec: every fps and every terminal of the bounds, and the default grid.
WideArgs == [fps : 1..MaxFps, autosize : BOOLEAN,
             size_x : {1, DefaultArgs.size_x}, size_y : {1, DefaultArgs.size_y}]
WideTerms == {<<>>, <<80, 24>>, <<200, 10>>}
             \cup ((0..MaxTermWidth) \X (0..MaxTermHeight))

\* QuantSpec: palettes over a few shades, the palettes of the source, and
\* colors over a few channel levels.
ShadeChoices ==
    { Shade("U2588", Color(0, 0, 0)), Shade("R", Color(255, 0, 0)),
      Shade("U2592", Color(153, 153, 153)), Shade(" ", Color(255, 255, 255)) }
Palettes ==
    (SeqsUpTo(ShadeChoices, MaxPalette) \ {<<>>})
    \cup { Shades,
           << Shade("O", Color(0, 0, 0)), Shade(" ", Color(255, 255, 255)) >> }
Levels == {0, 51, 152, 153, 255}
Colors == {Color(r, g, b) : r \in Levels, g \in Levels, b \in Levels}

MainIdle ==
    /\ args = DefaultArgs /\ term = <<>> /\ video = Err
    /\ frame_delay = 0 /\ size_x = 0 /\ size_y = 0
    /\ frames = <<>> /\ frames_text = <<>> /\ printed = <<>>
    /\ out = <<>> /\ idx = 0 /\ exit_code = -1
QuantIdle == shades = Shades /\ color = Color(0, 0, 0) /\ character = ""
SkipIdle == sk_frames = <<>> /\ sk_every = SKIP_EVERY /\ sk_result = <<>>

(***************************************************************************)
(* main.                                                                   *)
(***************************************************************************)
Init ==
    /\ pc = "parse"
    /\ args \in PlayArgs /\ term \in PlayTerms /\ video \in Videos
    /\ frame_delay = 0 /\ size_x = 0 /\ size_y = 0
    /\ frames = <<>> /\ frames_text = <<>> /\ printed = <<>>
    /\ out = <<>> /\ idx = 0 /\ exit_code = -1
    /\ QuantIdle /\ SkipIdle

InitArgs ==
    /\ pc = "parse"
    /\ args \in WideArgs /\ term \in WideTerms /\ video = Err
    /\ frame_delay = 0 /\ size_x = 0 /\ size_y = 0
    /\ frames = <<>> /\ frames_text = <<>> /\ printed = <<>>
    /\ out = <<>> /\ idx = 0 /\ exit_code = -1
    /\ QuantIdle /\ SkipIdle

\* A panic (an expect or unwrap that fails) ends the process with status 101.
Panic == pc' = "panicked" /\ exit_code' = 101

\* let args = Args::parse(); frame_delay, size_x, size_y (lines 209-215).
ParseArgs ==
    /\ pc = "parse"
    /\ frame_delay' = FrameDelay(args.fps)
    /\ size_x' = args.size_x
    /\ size_y' = args.size_y
    /\ pc' = "autosize"
    /\ UNCHANGED <<args, term, video, frames, frames_text, printed, out, idx,
                   exit_code, quantVars, skipVars>>

\* if args.autosize { ... } (lines 218-233).
Autosize ==
    /\ pc = "autosize"
    /\ LET s == AutoSize(args.autosize, term, size_x, size_y)
       IN  size_x' = s[1] /\ size_y' = s[2]
    /\ pc' = "load"
    /\ UNCHANGED <<args, term, video, frame_delay, frames, frames_text, printed,
                   out, idx, exit_code, quantVars, skipVars>>

\* match get_video_frames(&video_path) { ... } and the announcement of the
\* conversion (lines 236-257).
LoadFrames ==
    /\ pc = "load"
    /\ IF video.ok
       THEN LET skipped_frames == skip_frames(video.val, SKIP_EVERY)
                resized_frames == resize_frames(skipped_frames, size_x, size_y)
            IN  IF resized_frames.ok
                THEN /\ frames' = resized_frames.val
                     /\ printed' = Append(printed, "Converting frames to text: ")
                     /\ pc' = "convert"
                     /\ UNCHANGED exit_code
                ELSE /\ Panic
                     /\ UNCHANGED <<frames, printed>>
       ELSE /\ printed' = printed \o <<"Error: ", "Converting frames to text: ">>
            /\ pc' = "convert"
            /\ UNCHANGED <<frames, exit_code>>
    /\ UNCHANGED <<args, term, video, frame_delay, size_x, size_y, frames_text,
                   out, idx, quantVars, skipVars>>

\* One turn of for frame in frames.iter() { ... } (lines 258-264).
ConvertFrame ==
    /\ pc = "convert"
    /\ Len(frames_text) < Len(frames)
    /\ LET frame_text == frame_to_text(frames[Len(frames_text) + 1], size_x, size_y)
       IN  IF frame_text.ok
           THEN /\ frames_text' = Append(frames_text, frame_text.val)
                /\ UNCHANGED <<pc, exit_code>>
           ELSE /\ Panic
                /\ UNCHANGED frames_text
    /\ UNCHANGED <<args, term, video, frame_delay, size_x, size_y, frames,
                   printed, out, idx, quantVars, skipVars>>

\* The loop's end, the time taken and the prompt (lines 266-270).
ConvertDone ==
    /\ pc = "convert"
    /\ Len(frames_text) = Len(frames)
    /\ printed' = printed \o <<"Time taken to get frames: ",
                               "Press enter to start animation ">>
    /\ pc' = "read_line"
    /\ UNCHANGED <<args, term, video, frame_delay, size_x, size_y, frames,
                   frames_text, out, idx, exit_code, quantVars, skipVars>>

\* std::io::stdin().read_line(..).expect(..) (lines 272-273).
ReadLine ==
    /\ pc = "read_line"
    /\ \E ok \in BOOLEAN :
          IF ok THEN pc' = "hide" /\ UNCHANGED exit_code ELSE Panic
    /\ UNCHANGED <<args, term, video, frame_delay, size_x, size_y, frames,
                   frames_text, printed, out, idx, quantVars, skipVars>>

(***************************************************************************)
(* print_frames(&frames_text, frame_delay), called by main with expect: an *)
(* Err it returns panics main.  out records every terminal operation that  *)
(* was attempted and whether it succeeded.                                 *)
(***************************************************************************)
TermOp(op, arg, ok) == [op |-> op, arg |-> arg, ok |-> ok]

\* for frame_text in frames_text: the next turn, or the loop's end.
LoopHead(i) == IF i < Len(frames_text) THEN "move_to" ELSE "show"

\* Mutant: the loop steps over every other frame.
NextFrameSkipping(i) == i + 2

\* The frame the loop goes to after the one at index i.
NextFrame(i) == i + 1

\* A terminal operation of print_frames followed by `?`: on success go on
\* at `next`, on failure return the error, which main's expect turns into a
\* panic.
Attempt(op, arg, next) ==
    \E ok \in BOOLEAN :
       /\ out' = Append(out, TermOp(op, arg, ok))
       /\ IF ok THEN pc' = next /\ UNCHANGED exit_code ELSE Panic

\* execute!(stdout, Hide)? (line 151).
HideCursor ==
    /\ pc = "hide"
    /\ Attempt("Hide", 0, LoopHead(idx))
    /\ UNCHANGED <<args, term, video, frame_delay, size_x, size_y, frames,
                   frames_text, printed, idx, quantVars, skipVars>>

\* queue!(stdout, MoveTo(0, 0), ..)? (lines 154-157).
MoveCursor ==
    /\ pc = "move_to"
    /\ Attempt("MoveTo", 0, "print")
    /\ UNCHANGED <<args, term, video, frame_delay, size_x, size_y, frames,
                   frames_text, printed, idx, quantVars, skipVars>>

\* queue!(stdout, .., Print(frame_text))? (lines 158-159).
PrintFrame ==
    /\ pc = "print"
    /\ Attempt("Print", idx, "flush")
    /\ UNCHANGED <<args, term, video, frame_delay, size_x, size_y, frames,
                   frames_text, printed, idx, quantVars, skipVars>>

\* stdout.flush()? (line 161).
Flush ==
    /\ pc = "flush"
    /\ Attempt("Flush", 0, "sleep")
    /\ UNCHANGED <<args, term, video, frame_delay, size_x, size_y, frames,
                   frames_text, printed, idx, quantVars, skipVars>>

\* sleep(Duration::from_millis(frame_delay)) and the loop's step (line 162).
Sleep ==
    /\ pc = "sleep"
    /\ out' = Append(out, TermOp("Sleep", frame_delay, TRUE))
    /\ idx' = NextFrame(idx)
    /\ pc' = LoopHead(NextFrame(idx))
    /\ UNCHANGED <<args, term, video, frame_delay, size_x, size_y, frames,
                   frames_text, printed, exit_code, quantVars, skipVars>>

\* execute!(stdout, Show)?; Ok(()) and main's return (lines 165-167, 284).
ShowCursor ==
    /\ pc = "show"
    /\ \E ok \in BOOLEAN :
          /\ out' = Append(out, TermOp("Show", 0, ok))
          /\ IF ok THEN pc' = "exited" /\ exit_code' = 0 ELSE Panic
    /\ UNCHANGED <<args, term, video, frame_delay, size_x, size_y, frames,
                   frames_text, printed, idx, quantVars, skipVars>>

Next ==
    \/ ParseArgs \/ Autosize \/ LoadFrames \/ ConvertFrame \/ ConvertDone
    \/ ReadLine \/ HideCursor \/ MoveCursor \/ PrintFrame \/ Flush \/ Sleep
    \/ ShowCursor

Spec == Init /\ [][Next]_vars

NextArgs == ParseArgs \/ Autosize

ArgSpec == InitArgs /\ [][NextArgs]_vars

(***************************************************************************)
(* The selection loop of color_to_character over a palette.                *)
(***************************************************************************)
InitQuant ==
    /\ pc = "quantize"
    /\ shades \in Palettes /\ color \in Colors /\ character = ""
    /\ MainIdle /\ SkipIdle

Quantize ==
    /\ pc = "quantize"
    /\ character' = Select(shades, color)
    /\ pc' = "quantized"
    /\ UNCHANGED <<shades, color, mainVars, skipVars>>

NextQuant == Quantize

QuantSpec == InitQuant /\ [][NextQuant]_vars

(***************************************************************************)
(* skip_frames over frame lists and strides.                               *)
(***************************************************************************)
InitSkip ==
    /\ pc = "skip"
    /\ sk_frames \in SeqsUpTo(Kinds, MaxSkipLen)
    /\ sk_every \in 0..MaxStride
    /\ sk_result = <<>>
    /\ MainIdle /\ QuantIdle

SkipFrames ==
    /\ pc = "skip"
    /\ sk_result' = skip_frames(sk_frames, sk_every)
    /\ pc' = "skipped"
    /\ UNCHANGED <<sk_frames, sk_every, mainVars, quantVars>>

NextSkip == SkipFrames

SkipSpec == InitSkip /\ [][NextSkip]_vars

(***************************************************************************)
(* Properties.                                                             *)
(***************************************************************************)
Max0(n) == IF n > 0 THEN n ELSE 0

\* d = max(pixel.r - shade.r, 0)^2 + max(pixel.g - shade.g, 0)^2
\*     + max(pixel.b - shade.b, 0)^2
SatDist(c, shade) ==
    Max0(c.r - shade.color.r) * Max0(c.r - shade.color.r)
    + Max0(c.g - shade.color.g) * Max0(c.g - shade.color.g)
    + Max0(c.b - shade.color.b) * Max0(c.b - shade.color.b)

\* The lowest index of a shade of the palette at the least distance from c.
FirstClosest(palette, c) ==
    CHOOSE i \in 1..Len(palette) :
        /\ \A j \in 1..Len(palette) : SatDist(c, palette[i]) <= SatDist(c, palette[j])
        /\ \A j \in 1..(i - 1) : SatDist(c, palette[j]) > SatDist(c, palette[i])

IsGrid(text, sx, sy) ==
    /\ sx > 0 /\ sy > 0
    /\ Len(text) = sy * (sx + 1)
    /\ \A i \in 1..Len(text) : (text[i] = "\n") <=> (i % (sx + 1) = 0)

\* C3: every FrameText is size_y rows of size_x glyphs, each row followed by
\* one newline, and once the conversion is over there are as many
\* FrameTexts as frames.
C3_FrameTextGrid ==
    /\ \A k \in 1..Len(frames_text) : IsGrid(frames_text[k], size_x, size_y)
    /\ Len(frames_text) <= Len(frames)
    /\ pc \notin {"parse", "autosize", "load", "convert", "panicked"}
          => Len(frames_text) = Len(frames)

C3_Witness ==
    /\ pc = "exited"
    /\ Len(frames_text) = 2
    /\ size_x = 8 /\ size_y = 2
    /\ frames_text[1] /= frames_text[2]

\* The indices (0-based) skip_frames keeps of n frames.
KeptIndices(n, stride) == {i \in 0..(n - 1) : i % stride /= 0}

\* C4: skip_frames returns its input when skip_every is 0, and otherwise the
\* frames at the indices i with i % skip_every /= 0, in order, each once.
C4_SkipFrames ==
    pc = "skipped" =>
        IF sk_every = 0 THEN sk_result = sk_frames
        ELSE LET kept == KeptIndices(Len(sk_frames), sk_every)
                 nth(k) == CHOOSE i \in kept :
                               Cardinality({j \in kept : j < i}) = k - 1
             IN  /\ Len(sk_result) = Cardinality(kept)
                 /\ \A k \in 1..Len(sk_result) : sk_result[k] = sk_frames[nth(k) + 1]

C4_Witness ==
    /\ pc = "skipped"
    /\ sk_every = 2
    /\ sk_frames = <<0, 1, 0, 0, 0, 1>>
    /\ sk_result = <<1, 0, 1>>

\* C5: with autosize and a detected terminal, size_y = floor(width / 4) and
\* size_x = 4 * size_y, unless that size_y exceeds height, and then size_y =
\* height and size_x = 4 * height; otherwise the sizes of the arguments.
C5_Autosize ==
    pc = "load" =>
        IF args.autosize /\ term /= <<>>
        THEN LET width == term[1]
                 height == term[2]
                 q == CHOOSE n \in 0..width : 4 * n <= width /\ width < 4 * (n + 1)
             IN  /\ q > height => size_y = height /\ size_x = 4 * height
                 /\ q <= height => size_y = q /\ size_x = 4 * q
                 /\ term = <<80, 24>> => size_x = 80 /\ size_y = 20
                 /\ term = <<200, 10>> => size_x = 40 /\ size_y = 10
        ELSE size_x = args.size_x /\ size_y = args.size_y

C5_Witness ==
    /\ pc = "load"
    /\ args.autosize
    /\ term = <<200, 10>>
    /\ size_x = 40 /\ size_y = 10

\* Some attempted operation of print_frames is `op`.
Attempted(op) == \E i \in 1..Len(out) : out[i].op = op

\* C6: once print_frames has hidden the cursor, showing it is attempted
\* before print_frames returns, also when a later operation fails.
C6_CursorRestored ==
    (pc \in {"exited", "panicked"}
        /\ \E i \in 1..Len(out) : out[i].op = "Hide" /\ out[i].ok)
    => Attempted("Show")

RECURSIVE Playback(_, _, _)
\* The operations of frames i .. n-1, each MoveTo, Print, Flush, Sleep.
Playback(i, n, delay) ==
    IF i >= n THEN <<>>
    ELSE << TermOp("MoveTo", 0, TRUE), TermOp("Print", i, TRUE),
            TermOp("Flush", 0, TRUE), TermOp("Sleep", delay, TRUE) >>
         \o Playback(i + 1, n, delay)

ExpectedOut ==
    <<TermOp("Hide", 0, TRUE)>> \o Playback(0, Len(frames_text), frame_delay)
    \o <<TermOp("Show", 0, TRUE)>>

NoOutputError == \A i \in 1..Len(out) : out[i].ok

\* C7: when no terminal operation fails, print_frames hides the cursor once,
\* then for each frame in order moves the cursor, writes the frame, flushes
\* and sleeps for the delay, then shows the cursor once and returns; until
\* then a next operation is always possible.
C7_PlaysToCompletion ==
    NoOutputError =>
        /\ Len(out) <= Len(ExpectedOut)
        /\ out = SubSeq(ExpectedOut, 1, Len(out))
        /\ pc = "exited" => out = ExpectedOut
        /\ pc \in {"hide", "move_to", "print", "flush", "sleep", "show"}
              => Len(out) < Len(ExpectedOut) /\ ENABLED Next

C7_Witness ==
    /\ pc = "exited"
    /\ Len(frames_text) = 2
    /\ Len(out) = 10
    /\ NoOutputError

\* C8: when get_video_frames fails, the run does not go on to the prompt
\* and the playback, and does not end with exit status 0.
C8_SourceFailureFatal ==
    ~video.ok =>
        /\ pc \notin {"read_line", "hide", "move_to", "print", "flush", "sleep",
                      "show", "exited"}
        /\ exit_code /= 0

\* C9: the delay is round(1000 / fps) milliseconds (halves rounded up).
C9_RoundedDelay ==
    pc /= "parse" => frame_delay = (2000 + args.fps) \div (2 * args.fps)

\* C9 as amended: the delay is 1000 / fps truncated to an integer number of
\* milliseconds: delay * fps <= 1000 < (delay + 1) * fps.
C9_TruncatedDelay ==
    pc /= "parse" =>
        /\ frame_delay * args.fps <= 1000
        /\ 1000 < (frame_delay + 1) * args.fps

C9_Witness ==
    /\ pc = "load"
    /\ args.fps = 60
    /\ frame_delay = 16

\* C10: for every detected terminal the autosized grid has size_x = 4 *
\* size_y and exceeds the terminal in neither dimension.
C10_GridFitsTerminal ==
    (pc = "load" /\ args.autosize /\ term /= <<>>) =>
        /\ size_x = 4 * size_y
        /\ size_x <= term[1]
        /\ size_y <= term[2]

C10_Witness ==
    /\ pc = "load"
    /\ args.autosize
    /\ term = <<24, 3>>
    /\ size_x = 12 /\ size_y = 3

====
